---- MODULE Spec2Model ----
(***************************************************************************)
(* Model of mesonbuild/modules/cmake.py: the package config generator      *)
(* (create_package_file, configure_package_config_file), the version file  *)
(* generator with the cmake probe (detect_cmake,                           *)
(* write_basic_package_version_file) and the subproject target bridge      *)
(* (CMakeSubprojectHolder).                                                *)
(*                                                                         *)
(* Text is a sequence of atoms.  An atom stands for a non-empty run of     *)
(* characters of one class: "\\" is one backslash, "@" is one at sign, a   *)
(* member of NameAtoms is a run of characters of [-a-zA-Z0-9_], and every  *)
(* other atom is a run of text holding at least one character outside that *)
(* class and neither a backslash nor an at sign.                           *)
(***************************************************************************)
EXTENDS Integers, Sequences, FiniteSets, TLC

VARIABLES
    \* ---- one pass of the line loop of create_package_file ----
    rstate,      \* "input" | "done"
    rargs,       \* [infile, rel, extra] handed to create_package_file
    rline,       \* the template line
    rconf,       \* confdata
    rinit,       \* package_init as composed
    rout,        \* the line appended to result
    rmarks,      \* where each @name@ match landed in rout
    rmissing,    \* the set do_replacement returned
    rreported    \* what create_package_file hands back to its caller

rvars == <<rstate, rargs, rline, rconf, rinit, rout, rmarks, rmissing, rreported>>

VARIABLES
    \* ---- configure_package_config_file and create_package_file ----
    pc,                    \* position inside the running call, "idle" between calls
    environment,           \* [prefix, libdir]: builtin options of the run
    kwargs,                \* [args, input, name, install_dir, configuration] of the call
    error,                 \* the exception that ended the call, "" when none
    install_dir,           \* local of configure_package_config_file
    abs_install_dir,       \* local
    PACKAGE_RELATIVE_PATH, \* local
    extra,                 \* local
    package_init,          \* local of create_package_file
    template,              \* the input file as found on disk: [data, mode]
    result,                \* local of create_package_file
    nwritten,              \* lines of result that reached the temporary file
    fs,                    \* path -> file ([content, mode]) or NoFile
    dest0,                 \* what the destination held when the call began
    calls,                 \* calls begun so far
    build_def_files,       \* interpreter.build_def_files
    build_data,            \* interpreter.build.data
    conf_used              \* mark_used() was called on the configuration

pvars == <<pc, environment, kwargs, error, install_dir, abs_install_dir,
           PACKAGE_RELATIVE_PATH, extra, package_init, template, result,
           nwritten, fs, dest0, calls, build_def_files, build_data, conf_used>>

VARIABLES
    \* ---- detect_cmake and write_basic_package_version_file ----
    cmake_detected,   \* CmakeModule.cmake_detected
    cmake_root,       \* CmakeModule.cmake_root
    popen_count,      \* runs of the cmake binary so far
    dcalls,           \* executions of detect_cmake so far
    first_detect,     \* [ret, root] of the first execution of detect_cmake
    last_ret,         \* what the latest execution of detect_cmake returned
    wcalls,           \* calls of write_basic_package_version_file so far
    wlast,            \* the latest call of write_basic_package_version_file
    version_files,    \* the version files written so far
    cmake_modules,    \* compatibility modes with a template under <root>/Modules
    compilers         \* languages with a host compiler

dvars == <<cmake_detected, cmake_root, popen_count, dcalls, first_detect, last_ret,
           wcalls, wlast, version_files, cmake_modules, compilers>>

VARIABLES
    \* ---- CMakeSubprojectHolder ----
    subp_name,      \* the name the holder was created with
    subp_targets,   \* target name -> Target Info Record of cm_interpreter
    subp_vars,      \* variable name -> value in the held subproject
    lookups,        \* argument lists get_variable_method was called with
    bcalls,         \* holder methods called so far
    blast           \* the latest call: [op, args, ok, value, msg]

bvars == <<subp_name, subp_targets, subp_vars, lookups, bcalls, blast>>

vars == <<rvars, pvars, dvars, bvars>>

---------------------------------------------------------------------------
\* Bounds
MaxLen == 6
MaxCalls == 2
MaxProbeCalls == 3
MaxBridgeCalls == 3

---------------------------------------------------------------------------
\* Text helpers

BS == "\\"
AT == "@"

NameAtoms == {"a", "PACKAGE_INIT", "inputFileName", "PACKAGE_RELATIVE_PATH",
              "absInstallDir", "installPrefix",
              "usr", "lib", "lib64", "lib32", "local", "opt", "cmake", "Foo"}

IsNameAtom(c) == c \in NameAtoms

Max(S) == CHOOSE x \in S : \A y \in S : y <= x

Range(s) == {s[k] : k \in 1..Len(s)}

RECURSIVE Backslashes(_)
Backslashes(n) == IF n = 0 THEN <<>> ELSE <<BS>> \o Backslashes(n - 1)

IsPrefixAt(s, i, p) ==
    /\ i + Len(p) - 1 <= Len(s)
    /\ \A k \in 1..Len(p) : s[i + k - 1] = p[k]

Plain(t) == \A k \in 1..Len(t) : t[k] \notin {BS, AT}

Occurs(sub, s) == \E i \in 1..(Len(s) + 1) : IsPrefixAt(s, i, sub)

\* str.replace(old, new): every non-overlapping occurrence, left to right
RECURSIVE StrReplaceFrom(_, _, _, _)
StrReplaceFrom(s, i, old, new) ==
    IF i > Len(s) THEN <<>>
    ELSE IF IsPrefixAt(s, i, old)
         THEN new \o StrReplaceFrom(s, i + Len(old), old, new)
         ELSE <<s[i]>> \o StrReplaceFrom(s, i + 1, old, new)

StrReplace(s, old, new) == StrReplaceFrom(s, 1, old, new)

---------------------------------------------------------------------------
\* Argument values, files, and the rest state of each component

Absent == [t |-> "absent"]

Unbound == [t |-> "unbound"]

Str(v) == [t |-> "str", v |-> v]

IntVal == [t |-> "int"]

ListOf(n) == [t |-> "list", n |-> n]

ConfHolder(c) == [t |-> "conf", v |-> c]

NoFile == [exists |-> FALSE]

File(content, mode) == [exists |-> TRUE, content |-> content, mode |-> mode]

InFile == <<"/", "src", "/", "FooConfig.cmake.in">>

OutFile == <<"/", "build", "/", "Foo", "Config.cmake">>

Paths == {OutFile, Append(OutFile, "~")}

NoConf == [n \in {} |-> <<>>]

NoTemplate == [data |-> <<>>, mode |-> ""]

NoKwargs == [args |-> <<>>, input |-> Absent, name |-> Absent,
             install_dir |-> Absent, configuration |-> Absent]

NoRoot == "None"

NoDetect == [ran |-> FALSE, ret |-> FALSE, root |-> NoRoot]

NoWrite == [kw |-> [version |-> Absent, name |-> Absent, compatibility |-> Absent,
                    install_dir |-> Absent],
            error |-> "", detect_ran |-> FALSE, detect_ret |-> FALSE,
            invoked |-> FALSE, wrote |-> FALSE]

RenderIdle ==
    /\ rstate = "idle"
    /\ rargs = [infile |-> <<>>, rel |-> <<>>, extra |-> <<>>]
    /\ rline = <<>>
    /\ rconf = NoConf
    /\ rinit = <<>>
    /\ rout = <<>>
    /\ rmarks = <<>>
    /\ rmissing = {}
    /\ rreported = {}

Locals0 ==
    /\ kwargs = NoKwargs
    /\ error = ""
    /\ install_dir = Unbound
    /\ abs_install_dir = <<>>
    /\ PACKAGE_RELATIVE_PATH = <<>>
    /\ extra = <<>>
    /\ package_init = <<>>
    /\ template = NoTemplate
    /\ result = <<>>
    /\ nwritten = 0

PkgIdle ==
    /\ pc = "idle"
    /\ Locals0
    /\ fs = [p \in Paths |-> NoFile]
    /\ dest0 = NoFile
    /\ calls = 0
    /\ build_def_files = {}
    /\ build_data = <<>>
    /\ conf_used = FALSE
    /\ environment = [prefix |-> <<"/", "usr">>, libdir |-> <<"lib">>]

ProbeIdle ==
    /\ cmake_detected = FALSE
    /\ cmake_root = NoRoot
    /\ popen_count = 0
    /\ dcalls = 0
    /\ first_detect = NoDetect
    /\ last_ret = FALSE
    /\ wcalls = 0
    /\ wlast = NoWrite
    /\ version_files = {}
    /\ cmake_modules = {}
    /\ compilers = {}

NoCall == [op |-> "", args |-> <<>>, ok |-> TRUE, value |-> "", msg |-> <<>>]

NoTargets == [t \in {} |-> ""]

BridgeIdle ==
    /\ subp_name = ""
    /\ subp_targets = NoTargets
    /\ subp_vars = NoTargets
    /\ lookups = <<>>
    /\ bcalls = 0
    /\ blast = NoCall

---------------------------------------------------------------------------
\* Module constants

PACKAGE_INIT_BASE ==
    << "\n####### Expanded from ", BS, AT, "PACKAGE_INIT", BS, AT,
       " by configure_package_config_file() #######\n####### Any changes to this file will be overwritten by the next CMake run ####\n####### The input file was ",
       AT, "inputFileName", AT,
       " ########\n\nget_filename_component(PACKAGE_PREFIX_DIR \"${CMAKE_CURRENT_LIST_DIR}/",
       AT, "PACKAGE_RELATIVE_PATH", AT, "\" ABSOLUTE)\n" >>

PACKAGE_INIT_EXT ==
    << "\n# Use original install prefix when loaded through a \"/usr move\"\n# cross-prefix symbolic link such as /lib -> /usr/lib.\nget_filename_component(_realCurr \"${CMAKE_CURRENT_LIST_DIR}\" REALPATH)\nget_filename_component(_realOrig \"",
       AT, "absInstallDir", AT,
       "\" REALPATH)\nif(_realCurr STREQUAL _realOrig)\n  set(PACKAGE_PREFIX_DIR \"",
       AT, "installPrefix", AT,
       "\")\nendif()\nunset(_realOrig)\nunset(_realCurr)\n" >>

PACKAGE_INIT_SET_AND_CHECK ==
    << "\nmacro(set_and_check _var _file)\n  set(${_var} \"${_file}\")\n  if(NOT EXISTS \"${_file}\")\n    message(FATAL_ERROR \"File or directory ${_file} referenced by variable ${_var} does not exist !\")\n  endif()\nendmacro()\n\n####################################################################################\n" >>

---------------------------------------------------------------------------
\* The placeholder scan: the regex of create_package_file and re.sub

RECURSIVE BackslashRun(_, _)
BackslashRun(s, i) ==
    IF i <= Len(s) /\ s[i] = BS THEN 1 + BackslashRun(s, i + 1) ELSE 0

RECURSIVE NameRun(_, _)
NameRun(s, i) ==
    IF i <= Len(s) /\ IsNameAtom(s[i]) THEN 1 + NameRun(s, i + 1) ELSE 0

\* the lookahead without its optional backslash: (?=@)
Lookahead_at_only(s, j) == j <= Len(s) /\ s[j] = AT

\* (?=\\?@)
Lookahead(s, j) ==
    \/ j <= Len(s) /\ s[j] = AT
    \/ j + 1 <= Len(s) /\ s[j] = BS /\ s[j + 1] = AT

\* (?:\\\\)+(?=\\?@)   greedy over the pairs, backing off one pair at a time
EscapePairsLen(s, i) ==
    LET r  == BackslashRun(s, i)
        ps == {p \in 1..(r \div 2) : Lookahead(s, i + 2 * p)}
    IN  IF ps = {} THEN 0 ELSE 2 * Max(ps)

\* \\@
EscapedAtLen(s, i) ==
    IF i + 1 <= Len(s) /\ s[i] = BS /\ s[i + 1] = AT THEN 2 ELSE 0

\* @([-a-zA-Z0-9_]+)@
TokenLen(s, i) ==
    IF s[i] # AT THEN 0
    ELSE LET m == NameRun(s, i + 1)
         IN  IF m >= 1 /\ i + 1 + m <= Len(s) /\ s[i + 1 + m] = AT
             THEN m + 2 ELSE 0

\* the three alternatives in the order the pattern lists them
regex(s, i) ==
    IF EscapePairsLen(s, i) > 0 THEN [alt |-> 1, len |-> EscapePairsLen(s, i)]
    ELSE IF EscapedAtLen(s, i) > 0 THEN [alt |-> 2, len |-> 2]
    ELSE IF TokenLen(s, i) > 0 THEN [alt |-> 3, len |-> TokenLen(s, i)]
    ELSE [alt |-> 0, len |-> 0]

\* the replacement callback of do_replacement
variable_replace(s, i, m, confdata) ==
    IF m.alt = 1 THEN [text |-> Backslashes(m.len \div 2), missing |-> {}]
    ELSE IF m.alt = 2 THEN [text |-> <<AT>>, missing |-> {}]
    ELSE LET varname == SubSeq(s, i + 1, i + m.len - 2)
         IN  IF varname \in DOMAIN confdata
             THEN [text |-> confdata[varname], missing |-> {}]
             ELSE [text |-> SubSeq(s, i, i + m.len - 1), missing |-> {varname}]

\* re.sub(regex, variable_replace, line): leftmost match, then on from its end
RECURSIVE ReSub(_, _, _, _)
ReSub(s, i, confdata, acc) ==
    IF i > Len(s) THEN acc
    ELSE LET m == regex(s, i)
         IN  IF m.alt = 0
             THEN ReSub(s, i + 1, confdata,
                        [acc EXCEPT !.out = Append(@, s[i])])
             ELSE LET r == variable_replace(s, i, m, confdata)
                  IN  ReSub(s, i + m.len, confdata,
                            [out     |-> acc.out \o r.text,
                             missing |-> acc.missing \cup r.missing,
                             marks   |-> IF m.alt = 3
                                         THEN Append(acc.marks,
                                                [name |-> SubSeq(s, i + 1, i + m.len - 2),
                                                 src  |-> i,
                                                 at   |-> Len(acc.out) + 1,
                                                 len  |-> Len(r.text)])
                                         ELSE acc.marks])

do_replacement(line, confdata) ==
    ReSub(line, 1, confdata, [out |-> <<>>, missing |-> {}, marks |-> <<>>])

---------------------------------------------------------------------------
\* create_package_file: composing package_init and the line loop

\* composing without "package_init += extra"
compose_package_init_noextra(infile, relative_path, extra_block) ==
    StrReplace(StrReplace(PACKAGE_INIT_BASE,
                          <<AT, "PACKAGE_RELATIVE_PATH", AT>>, relative_path),
               <<AT, "inputFileName", AT>>, infile) \o PACKAGE_INIT_SET_AND_CHECK

compose_package_init(infile, relative_path, extra_block) ==
    LET p1 == StrReplace(PACKAGE_INIT_BASE,
                         <<AT, "PACKAGE_RELATIVE_PATH", AT>>, relative_path)
        p2 == StrReplace(p1, <<AT, "inputFileName", AT>>, infile)
    IN  p2 \o extra_block \o PACKAGE_INIT_SET_AND_CHECK

\* body of "for line in data"
render_line(line, init_block, confdata) ==
    do_replacement(StrReplace(line, <<AT, "PACKAGE_INIT", AT>>, init_block), confdata)

\* create_package_file has no return statement and drops _missing
returned_missing(missing) == {}

---------------------------------------------------------------------------
\* Inputs of the line loop

LineAlphabet == {BS, AT, "a", " "}

GenericLines == UNION {[1..n -> LineAlphabet] : n \in 0..MaxLen}

Affixes == {<<>>} \cup {<<c>> : c \in LineAlphabet}

InitLines == {pre \o <<AT, "PACKAGE_INIT", AT>> \o post : pre \in Affixes, post \in Affixes}

Lines == GenericLines \cup InitLines

Confs == {NoConf, [n \in {<<"a">>} |-> <<"V">>]}

FilledExt(absdir, prefix) ==
    StrReplace(StrReplace(PACKAGE_INIT_EXT, <<AT, "absInstallDir", AT>>, absdir),
               <<AT, "installPrefix", AT>>, prefix)

UpUpUp == <<"..", "/", "..", "/", "..">>

RenderArgs ==
    { [infile |-> <<"/", "FooConfig.cmake.in">>, rel |-> UpUpUp, extra |-> <<>>],
      [infile |-> <<"/", "FooConfig.cmake.in">>, rel |-> UpUpUp,
       extra  |-> FilledExt(<<"/", "usr", "/", "lib", "/", "cmake", "/", "Foo">>, <<"/", "usr">>)],
      [infile |-> <<"/", AT, "a", AT, ".in">>, rel |-> UpUpUp, extra |-> <<>>],
      [infile |-> <<"/", BS, AT, "x.in">>, rel |-> UpUpUp, extra |-> <<>>] }

---------------------------------------------------------------------------
\* os.path on posix

isabs(p) == Len(p) > 0 /\ p[1] = "/"

join(a, b) ==
    IF isabs(b) THEN b
    ELSE IF a = <<>> \/ a[Len(a)] = "/" THEN a \o b
    ELSE a \o <<"/">> \o b

RECURSIVE SplitFrom(_, _, _, _)
SplitFrom(p, i, cur, acc) ==
    LET flushed == IF cur = <<>> THEN acc ELSE Append(acc, cur)
    IN  IF i > Len(p) THEN flushed
        ELSE IF p[i] = "/" THEN SplitFrom(p, i + 1, <<>>, flushed)
        ELSE SplitFrom(p, i + 1, Append(cur, p[i]), acc)

\* the components of normpath(p) for an absolute p
RECURSIVE Normalise(_, _)
Normalise(comps, acc) ==
    IF comps = <<>> THEN acc
    ELSE IF Head(comps) = <<".">> THEN Normalise(Tail(comps), acc)
    ELSE IF Head(comps) = <<"..">>
         THEN Normalise(Tail(comps), IF acc = <<>> THEN acc ELSE SubSeq(acc, 1, Len(acc) - 1))
    ELSE Normalise(Tail(comps), Append(acc, Head(comps)))

Components(p) == Normalise(SplitFrom(p, 1, <<>>, <<>>), <<>>)

CommonLen(a, b) ==
    Max({n \in 0..Len(a) : n <= Len(b) /\ \A k \in 1..n : a[k] = b[k]})

RECURSIVE JoinComponents(_)
JoinComponents(cs) ==
    IF Len(cs) = 1 THEN cs[1] ELSE cs[1] \o <<"/">> \o JoinComponents(Tail(cs))

relpath(path, start) ==
    LET start_list == Components(start)
        path_list  == Components(path)
        i          == CommonLen(start_list, path_list)
        rel_list   == [k \in 1..(Len(start_list) - i) |-> <<"..">>]
                         \o SubSeq(path_list, i + 1, Len(path_list))
    IN  IF rel_list = <<>> THEN <<".">> ELSE JoinComponents(rel_list)

---------------------------------------------------------------------------
\* configure_package_config_file

\* re.match('^(/usr)?/lib(64)?/.+', s): the tail from position i
LibTailAt(s, i) ==
    /\ i + 3 <= Len(s)
    /\ s[i] = "/"
    /\ s[i + 1] \in {"lib", "lib64"}
    /\ s[i + 2] = "/"

\* the pattern without its optional (/usr) group
re_match_libdir_nousr(s) == LibTailAt(s, 1)

re_match_libdir(s) ==
    \/ IsPrefixAt(s, 1, <<"/", "usr">>) /\ LibTailAt(s, 3)
    \/ LibTailAt(s, 1)

default_install_dir(libdir, name) == join(join(libdir, <<"cmake">>), name)

\* the local install_dir as line 249 finds it: assigned on the one branch only
install_dir_local(kw, libdir) ==
    IF kw.install_dir.t = "absent"
    THEN Str(default_install_dir(libdir, kw.name.v))
    ELSE Unbound

\* lines 222-241: the checks that come before install_dir is looked at
early_error(kw) ==
    IF kw.args # <<>> THEN "configure_package_config_file takes only keyword arguments."
    ELSE IF kw.input.t = "absent" THEN "configure_package_config_file requires \"input\" keyword."
    ELSE IF kw.input.t = "list" /\ kw.input.n # 1 THEN "Keyword argument 'input' requires exactly one file"
    ELSE IF kw.input.t \notin {"str", "list"} THEN "input must be a string or a file"
    ELSE IF kw.name.t = "absent" THEN "\"name\" not specified."
    ELSE ""

\* lines 222-256 in source order; reading the unassigned local at line 249
\* raises UnboundLocalError
configure_error(kw, libdir) ==
    IF early_error(kw) # "" THEN early_error(kw)
    ELSE IF install_dir_local(kw, libdir) = Unbound THEN "UnboundLocalError: install_dir"
    ELSE IF install_dir_local(kw, libdir).t # "str" THEN "\"install_dir\" must be a string."
    ELSE IF kw.configuration.t = "absent" THEN "\"configuration\" not specified."
    ELSE IF kw.configuration.t # "conf" THEN "Argument \"configuration\" is not of type configuration_data"
    ELSE ""

resolve_abs_install_dir(prefix, dir) == IF isabs(dir) THEN dir ELSE join(prefix, dir)

resolve_extra(prefix, absdir) ==
    IF re_match_libdir(absdir)
    THEN StrReplace(StrReplace(PACKAGE_INIT_EXT, <<AT, "absInstallDir", AT>>, absdir),
                    <<AT, "installPrefix", AT>>, prefix)
    ELSE <<>>

\* writing straight to the destination
outfile_tmp_direct(outfile) == outfile

outfile_tmp(outfile) == Append(outfile, "~")

Prefixes == {<<"/", "usr", "/", "local">>, <<"/", "usr">>, <<"/">>}
LibDirs == {<<"lib">>, <<"lib64">>, <<"lib32">>,
            <<"/", "usr", "/", "lib">>, <<"/", "usr", "/", "local", "/", "lib">>,
            <<"/", "lib64">>}

\* an absolute libdir lies inside the prefix
Environments ==
    {e \in [prefix : Prefixes, libdir : LibDirs] :
        isabs(e.libdir) =>
            LET pl == Components(e.prefix) ll == Components(e.libdir)
            IN  CommonLen(pl, ll) = Len(pl)}

KwargsSet ==
    [args          : {<<>>, <<"x">>},
     input         : {Absent, Str(InFile), ListOf(1), ListOf(2), IntVal},
     name          : {Absent, Str(<<"Foo">>)},
     install_dir   : {Absent, Str(<<"/", "usr", "/", "lib", "/", "cmake", "/", "Foo">>),
                      Str(<<"share", "/", "cmake">>), IntVal},
     configuration : {Absent, Str(<<"x">>)} \cup {ConfHolder(c) : c \in Confs}]

Templates ==
    { [data |-> << <<AT, "PACKAGE_INIT", AT>>, <<"set(X ", AT, "a", AT, ")\n">> >>, mode |-> "644"],
      [data |-> << <<"# plain\n">> >>, mode |-> "755"] }

interp == <<build_def_files, build_data, conf_used>>

PkgInit ==
    /\ pc = "idle"
    /\ Locals0
    /\ fs = [p \in Paths |-> NoFile]
    /\ dest0 = NoFile
    /\ calls = 0
    /\ build_def_files = {}
    /\ build_data = <<>>
    /\ conf_used = FALSE
    /\ environment \in Environments
    /\ RenderIdle
    /\ ProbeIdle
    /\ BridgeIdle

\* lines 221-268: validation, install path resolution, package_init composed
\* on entry to create_package_file (lines 194-197)
Configure ==
    /\ pc = "idle"
    /\ calls < MaxCalls
    /\ \E kw \in KwargsSet :
        LET e == configure_error(kw, environment.libdir)
            d == install_dir_local(kw, environment.libdir)
        IN  /\ kwargs' = kw
            /\ error' = e
            /\ IF e # ""
               THEN /\ pc' = "error"
                    /\ install_dir' = IF early_error(kw) # "" THEN Unbound ELSE d
                    /\ UNCHANGED <<abs_install_dir, PACKAGE_RELATIVE_PATH, extra, package_init>>
               ELSE LET a == resolve_abs_install_dir(environment.prefix, d.v)
                        r == relpath(environment.prefix, a)
                        x == resolve_extra(environment.prefix, a)
                    IN  /\ pc' = "read"
                        /\ install_dir' = d
                        /\ abs_install_dir' = a
                        /\ PACKAGE_RELATIVE_PATH' = r
                        /\ extra' = x
                        /\ package_init' = compose_package_init(InFile, r, x)
    /\ calls' = calls + 1
    /\ dest0' = fs[OutFile]
    /\ UNCHANGED <<environment, template, result, nwritten, fs, interp>>
    /\ UNCHANGED <<rvars, dvars, bvars>>

\* lines 199-203
ReadTemplate ==
    /\ pc = "read"
    /\ \/ \E t \in Templates : template' = t /\ pc' = "render" /\ error' = error
       \/ template' = template /\ pc' = "error" /\ error' = "Could not read input file"
    /\ UNCHANGED <<environment, kwargs, install_dir, abs_install_dir, PACKAGE_RELATIVE_PATH,
                   extra, package_init, result, nwritten, fs, dest0, calls, interp>>
    /\ UNCHANGED <<rvars, dvars, bvars>>

\* lines 205-211
RenderLines ==
    /\ pc = "render"
    /\ result' = [k \in 1..Len(template.data) |->
                    render_line(template.data[k], package_init, kwargs.configuration.v).out]
    /\ pc' = "open"
    /\ UNCHANGED <<environment, kwargs, error, install_dir, abs_install_dir, PACKAGE_RELATIVE_PATH,
                   extra, package_init, template, nwritten, fs, dest0, calls, interp>>
    /\ UNCHANGED <<rvars, dvars, bvars>>

\* line 214: open(outfile_tmp, "w") creates or truncates
OpenTmp ==
    /\ pc = "open"
    /\ LET t == outfile_tmp(OutFile)
       IN  fs' = [fs EXCEPT ![t] = File(<<>>, IF fs[t].exists THEN fs[t].mode ELSE "644")]
    /\ nwritten' = 0
    /\ pc' = "write"
    /\ UNCHANGED <<environment, kwargs, error, install_dir, abs_install_dir, PACKAGE_RELATIVE_PATH,
                   extra, package_init, template, result, dest0, calls, interp>>
    /\ UNCHANGED <<rvars, dvars, bvars>>

\* line 215: the lines reach the file one after the other; the with block
\* closes the file after the last
WriteLines ==
    /\ pc = "write"
    /\ IF nwritten < Len(result)
       THEN /\ fs' = [fs EXCEPT ![outfile_tmp(OutFile)].content = Append(@, result[nwritten + 1])]
            /\ nwritten' = nwritten + 1
            /\ pc' = pc
       ELSE /\ pc' = "copymode"
            /\ UNCHANGED <<fs, nwritten>>
    /\ UNCHANGED <<environment, kwargs, error, install_dir, abs_install_dir, PACKAGE_RELATIVE_PATH,
                   extra, package_init, template, result, dest0, calls, interp>>
    /\ UNCHANGED <<rvars, dvars, bvars>>

\* line 217
CopyMode ==
    /\ pc = "copymode"
    /\ fs' = [fs EXCEPT ![outfile_tmp(OutFile)].mode = template.mode]
    /\ pc' = "replace"
    /\ UNCHANGED <<environment, kwargs, error, install_dir, abs_install_dir, PACKAGE_RELATIVE_PATH,
                   extra, package_init, template, result, nwritten, dest0, calls, interp>>
    /\ UNCHANGED <<rvars, dvars, bvars>>

\* mesonlib.replace_if_different(dst, dst_tmp): one atomic step
replace_if_different(files, dst, dst_tmp) ==
    IF files[dst].exists /\ files[dst].content = files[dst_tmp].content
    THEN [files EXCEPT ![dst_tmp] = NoFile]
    ELSE [p \in DOMAIN files |-> IF p = dst THEN files[dst_tmp]
                                 ELSE IF p = dst_tmp THEN NoFile ELSE files[p]]

\* line 218
Replace ==
    /\ pc = "replace"
    /\ fs' = replace_if_different(fs, OutFile, outfile_tmp(OutFile))
    /\ pc' = "post"
    /\ UNCHANGED <<environment, kwargs, error, install_dir, abs_install_dir, PACKAGE_RELATIVE_PATH,
                   extra, package_init, template, result, nwritten, dest0, calls, interp>>
    /\ UNCHANGED <<rvars, dvars, bvars>>

\* lines 270-279
FinishConfigure ==
    /\ pc = "post"
    /\ conf_used' = TRUE
    /\ build_def_files' = build_def_files \cup {InFile}
    /\ build_data' = Append(build_data, [file |-> OutFile, install_dir |-> install_dir.v])
    /\ pc' = "done"
    /\ UNCHANGED <<environment, kwargs, error, install_dir, abs_install_dir, PACKAGE_RELATIVE_PATH,
                   extra, package_init, template, result, nwritten, fs, dest0, calls>>
    /\ UNCHANGED <<rvars, dvars, bvars>>

\* an exception or an interrupt between any two steps of create_package_file
Interrupt ==
    /\ pc \in {"read", "render", "open", "write", "copymode", "replace", "post"}
    /\ pc' = "error"
    /\ error' = "interrupted"
    /\ UNCHANGED <<environment, kwargs, install_dir, abs_install_dir, PACKAGE_RELATIVE_PATH,
                   extra, package_init, template, result, nwritten, fs, dest0, calls, interp>>
    /\ UNCHANGED <<rvars, dvars, bvars>>

\* the call is over, its locals are gone
Return ==
    /\ pc \in {"done", "error"}
    /\ pc' = "idle"
    /\ kwargs' = NoKwargs
    /\ error' = ""
    /\ install_dir' = Unbound
    /\ abs_install_dir' = <<>>
    /\ PACKAGE_RELATIVE_PATH' = <<>>
    /\ extra' = <<>>
    /\ package_init' = <<>>
    /\ template' = NoTemplate
    /\ result' = <<>>
    /\ nwritten' = 0
    /\ UNCHANGED <<environment, fs, dest0, calls, interp>>
    /\ UNCHANGED <<rvars, dvars, bvars>>

PkgNext ==
    \/ Configure
    \/ ReadTemplate
    \/ RenderLines
    \/ OpenTmp
    \/ WriteLines
    \/ CopyMode
    \/ Replace
    \/ FinishConfigure
    \/ Interrupt
    \/ Return

SpecPkg == PkgInit /\ [][PkgNext]_vars

---------------------------------------------------------------------------
\* Claims about the package config generator

Rendered == File(result, template.mode)

\* C1: while a call runs and after it ends the destination holds what it held
\* when the call began or the complete rendered output, and it changes only
\* in the replace step, when the temporary file is complete and has its mode.
C1_DestNeverPartial ==
    /\ [](pc # "idle" =>
            \/ fs[OutFile] = dest0
            \/ pc \in {"post", "done", "error"} /\ fs[OutFile] = Rendered)
    /\ [][fs'[OutFile] # fs[OutFile] =>
            /\ pc = "replace"
            /\ fs[Append(OutFile, "~")] = Rendered
            /\ fs'[OutFile] = Rendered]_vars

C1_Witness ==
    /\ pc = "error"
    /\ error = "interrupted"
    /\ Len(result) = 2
    /\ nwritten = 1
    /\ dest0.exists
    /\ fs[OutFile] = dest0
    /\ fs[Append(OutFile, "~")].exists
    /\ fs[Append(OutFile, "~")].content = <<result[1]>>

\* C6: install_dir omitted gives libdir/cmake/<name>; supplied as a string it
\* is the install directory and the file is generated; supplied as a
\* non-string the call fails with the "must be a string" error; the install
\* directory is never undefined.
C6_InstallDirBranches ==
    (pc # "idle" /\ early_error(kwargs) = "") =>
        /\ error # "UnboundLocalError: install_dir"
        /\ kwargs.install_dir.t = "absent" =>
              install_dir = Str(environment.libdir \o <<"/", "cmake", "/">> \o kwargs.name.v)
        /\ kwargs.install_dir.t = "str" =>
              /\ install_dir = kwargs.install_dir
              /\ error # "\"install_dir\" must be a string."
        /\ kwargs.install_dir.t \notin {"absent", "str"} =>
              error = "\"install_dir\" must be a string."

\* optional /usr, then /lib or /lib64, then / and at least one more character
LibDirShape(d) ==
    \E u \in {<<>>, <<"/", "usr">>}, l \in {"lib", "lib64"} :
        /\ IsPrefixAt(d, 1, u \o <<"/", l, "/">>)
        /\ Len(d) > Len(u) + 3

PrefixJoined(prefix, d) ==
    IF prefix[Len(prefix)] = "/" THEN prefix \o d ELSE prefix \o <<"/">> \o d

UsrLocalLibCmakeFoo == <<"/", "usr", "/", "local", "/", "lib", "/", "cmake", "/", "Foo">>
UsrLibCmakeFoo == <<"/", "usr", "/", "lib", "/", "cmake", "/", "Foo">>

---------------------------------------------------------------------------
\* detect_cmake and write_basic_package_version_file

COMPATIBILITIES == {"AnyNewerVersion", "SameMajorVersion", "SameMinorVersion", "ExactVersion"}

\* what running "cmake --system-information -G Ninja" can give: the return
\* code and the CMAKE_ROOT the pattern finds in stdout ("" when it finds none)
PopenOutcomes ==
    { [rc |-> 0, root |-> "/usr/share/cmake"],
      [rc |-> 0, root |-> "/opt/cmake"],
      [rc |-> 1, root |-> ""],
      [rc |-> 0, root |-> ""] }

\* a probe that never looks at the cache
cache_hit_never(detected) == FALSE

\* line 134
cache_hit(detected) == detected

\* lines 133-151
detect_cmake(detected, root, o) ==
    IF cache_hit(detected)
    THEN [ret |-> TRUE, detected |-> detected, root |-> root, invoked |-> FALSE]
    ELSE IF o.rc # 0
    THEN [ret |-> FALSE, detected |-> detected, root |-> root, invoked |-> TRUE]
    ELSE IF o.root = ""
    THEN [ret |-> FALSE, detected |-> detected, root |-> root, invoked |-> TRUE]
    ELSE [ret |-> TRUE, detected |-> TRUE, root |-> o.root, invoked |-> TRUE]

ProbeInit ==
    /\ cmake_detected = FALSE
    /\ cmake_root = NoRoot
    /\ popen_count = 0
    /\ dcalls = 0
    /\ first_detect = NoDetect
    /\ last_ret = FALSE
    /\ wcalls = 0
    /\ wlast = NoWrite
    /\ version_files = {}
    /\ cmake_modules \in {COMPATIBILITIES, COMPATIBILITIES \ {"SameMinorVersion"}}
    /\ compilers \in {{"c"}, {"cpp"}, {}}
    /\ RenderIdle
    /\ PkgIdle
    /\ BridgeIdle

\* the effect of one execution of detect_cmake on the module and the counters
RunDetect(d) ==
    /\ cmake_detected' = d.detected
    /\ cmake_root' = d.root
    /\ popen_count' = popen_count + (IF d.invoked THEN 1 ELSE 0)
    /\ dcalls' = dcalls + 1
    /\ first_detect' = IF first_detect.ran THEN first_detect
                       ELSE [ran |-> TRUE, ret |-> d.ret, root |-> d.root]
    /\ last_ret' = d.ret

\* a call of detect_cmake
DetectCmake ==
    /\ dcalls + wcalls < MaxProbeCalls
    /\ \E o \in PopenOutcomes : RunDetect(detect_cmake(cmake_detected, cmake_root, o))
    /\ UNCHANGED <<wcalls, wlast, version_files, cmake_modules, compilers>>
    /\ UNCHANGED <<rvars, pvars, bvars>>

VersionKwargs ==
    [version       : {Absent, Str("1.2.3")},
     name          : {Str("Foo"), IntVal},
     compatibility : {Absent, IntVal, Str("SameMajorVersion"), Str("SameMinorVersion"), Str("Bogus")},
     install_dir   : {Absent, Str("lib/cmake/Foo"), IntVal}]

\* lines 163-167
compatibility_of(kw) ==
    IF kw.compatibility.t = "absent" THEN Str("AnyNewerVersion") ELSE kw.compatibility

\* the type check alone, without the membership test
compatibility_error_lax(c) ==
    IF c.t # "str" THEN "compatibility is not string." ELSE ""

compatibility_error(c) ==
    IF c.t # "str" THEN "compatibility is not string."
    ELSE IF c.v \notin COMPATIBILITIES
    THEN "compatibility must be either AnyNewerVersion, SameMajorVersion or ExactVersion."
    ELSE ""

\* lines 155-167: the checks that come before detect_cmake
version_args_error(kw) ==
    IF kw.version.t # "str" THEN "Version must be specified."
    ELSE IF kw.name.t # "str" THEN "Name not specified."
    ELSE compatibility_error(compatibility_of(kw))

\* lines 172-191: the checks and the write that follow a successful detect_cmake
version_file_error(kw, modules, comps) ==
    IF kw.install_dir.t \notin {"absent", "str"} THEN "Install_dir must be a string."
    ELSE IF compatibility_of(kw).v \notin modules
    THEN "your cmake installation doesn't support the " \o compatibility_of(kw).v \o " compatibility"
    ELSE IF "c" \notin comps /\ "cpp" \notin comps
    THEN "Requires a C or C++ compiler to compute sizeof(void *)."
    ELSE ""

\* lines 153-191
WriteBasicPackageVersionFile ==
    /\ dcalls + wcalls < MaxProbeCalls
    /\ wcalls' = wcalls + 1
    /\ \E kw \in VersionKwargs, o \in PopenOutcomes :
        LET e1 == version_args_error(kw)
            d  == detect_cmake(cmake_detected, cmake_root, o)
            e2 == IF ~d.ret THEN "Unable to find cmake"
                  ELSE version_file_error(kw, cmake_modules, compilers)
        IN  IF e1 # ""
            THEN /\ wlast' = [kw |-> kw, error |-> e1, detect_ran |-> FALSE,
                              detect_ret |-> FALSE, invoked |-> FALSE, wrote |-> FALSE]
                 /\ UNCHANGED <<cmake_detected, cmake_root, popen_count, dcalls,
                                first_detect, last_ret, version_files>>
            ELSE /\ RunDetect(d)
                 /\ wlast' = [kw |-> kw, error |-> e2, detect_ran |-> TRUE,
                              detect_ret |-> d.ret, invoked |-> d.invoked,
                              wrote |-> (e2 = "")]
                 /\ version_files' =
                        IF e2 # "" THEN version_files
                        ELSE version_files \cup
                               {[file     |-> kw.name.v \o "ConfigVersion.cmake",
                                 template |-> compatibility_of(kw).v,
                                 root     |-> d.root,
                                 version  |-> kw.version.v,
                                 voidp    |-> "8"]}
    /\ UNCHANGED <<cmake_modules, compilers>>
    /\ UNCHANGED <<rvars, pvars, bvars>>

ProbeNext ==
    \/ DetectCmake
    \/ WriteBasicPackageVersionFile

SpecProbe == ProbeInit /\ [][ProbeNext]_vars

---------------------------------------------------------------------------
\* Claims about the probe and the version file generator

\* C4 as stated: only the first call runs the cmake binary, and every later
\* call returns what the first returned, with the same cmake_root.
C4_OnlyFirstCallInvokes ==
    dcalls >= 1 =>
        /\ popen_count <= 1
        /\ last_ret = first_detect.ret
        /\ cmake_root = first_detect.root

\* C4 amended: detect_cmake caches success only.  Once a call has succeeded,
\* no later call runs the binary, every later call returns true, and
\* cmake_detected and cmake_root never change again; a call made while
\* nothing is cached runs the binary, whatever earlier calls returned.
C4_SuccessCached ==
    /\ [][cmake_detected =>
            /\ cmake_detected'
            /\ cmake_root' = cmake_root
            /\ popen_count' = popen_count
            /\ dcalls' # dcalls => last_ret']_vars
    /\ [][(~cmake_detected /\ dcalls' # dcalls) => popen_count' = popen_count + 1]_vars
    /\ [](cmake_detected => cmake_root \in {o.root : o \in PopenOutcomes} \ {""})

C4_Witness ==
    /\ cmake_detected
    /\ dcalls = MaxProbeCalls
    /\ popen_count = 2
    /\ ~first_detect.ret
    /\ last_ret

\* the error the claimed order of checks gives
FirstFailure(kw, ret, modules) ==
    LET c == IF kw.compatibility.t = "absent" THEN "AnyNewerVersion"
             ELSE IF kw.compatibility.t = "str" THEN kw.compatibility.v ELSE "?"
    IN  IF kw.version.t # "str" THEN "version"
        ELSE IF kw.name.t # "str" THEN "name"
        ELSE IF c \notin COMPATIBILITIES THEN "compatibility"
        ELSE IF ~ret THEN "cmake"
        ELSE IF kw.install_dir.t \notin {"absent", "str"} THEN "install_dir"
        ELSE IF c \notin modules THEN "template"
        ELSE "none"

ErrorKind(e) ==
    IF e = "Version must be specified." THEN "version"
    ELSE IF e = "Name not specified." THEN "name"
    ELSE IF e \in {"compatibility is not string.",
                   "compatibility must be either AnyNewerVersion, SameMajorVersion or ExactVersion."}
    THEN "compatibility"
    ELSE IF e = "Unable to find cmake" THEN "cmake"
    ELSE IF e = "Install_dir must be a string." THEN "install_dir"
    ELSE IF e \in {"your cmake installation doesn't support the " \o m \o " compatibility" :
                     m \in COMPATIBILITIES}
    THEN "template"
    ELSE IF e = "Requires a C or C++ compiler to compute sizeof(void *)." THEN "compiler"
    ELSE "none"

\* C7: the version file is written only when version, name, compatibility,
\* detect_cmake, install_dir and the template check all pass; the error is
\* that of the first failing check in this order; a bad compatibility fails
\* before the cmake binary runs; a failing call writes no version file.
C7_ChecksBeforeWrite ==
    /\ [](wlast # NoWrite =>
            LET k == FirstFailure(wlast.kw, wlast.detect_ret, cmake_modules)
            IN  /\ wlast.wrote => (k = "none" /\ wlast.error = "")
                /\ k # "none" => (ErrorKind(wlast.error) = k /\ ~wlast.wrote)
                /\ k \in {"version", "name", "compatibility"} =>
                      (~wlast.invoked /\ ~wlast.detect_ran)
                /\ wlast.error # "" => ~wlast.wrote)
    /\ [][(wlast' # wlast /\ wlast'.error # "") => version_files' = version_files]_vars
    /\ [][version_files' # version_files => (wlast'.wrote /\ wlast'.error = "")]_vars

C7_Witness ==
    /\ wlast.wrote
    /\ wlast.kw.compatibility = Str("SameMajorVersion")
    /\ \E f \in version_files : f.template = "SameMajorVersion" /\ f.version = "1.2.3"
    /\ Cardinality(version_files) = 2

---------------------------------------------------------------------------
\* CMakeSubprojectHolder

None == [none |-> TRUE]

InfoKeys == {"inc", "src", "dep", "tgt", "func"}

\* cm_interpreter.target_info(tgt)
target_info(records, tgt) == IF tgt \in DOMAIN records THEN records[tgt] ELSE None

\* cm_interpreter.target_list()
target_list(records) == DOMAIN records

\* SubprojectHolder.get_variable_method(args, kwargs)
get_variable_method(variables, args) ==
    IF Len(args) # 1
    THEN [ok |-> FALSE, value |-> "", msg |-> <<"Get_variable takes one or two arguments.">>]
    ELSE IF args[1] \in DOMAIN variables
    THEN [ok |-> TRUE, value |-> variables[args[1]], msg |-> <<>>]
    ELSE [ok |-> FALSE, value |-> "", msg |-> <<"Requested variable \"", args[1], "\" not found.">>]

\* no check of the lookup result
info_missing_never(res) == FALSE

\* line 77
info_missing(res) == res = None

\* lines 71-82
args_to_info(records, args) ==
    IF Len(args) # 1
    THEN [ok |-> FALSE, info |-> None, msg |-> <<"Exactly one argument is required.">>]
    ELSE LET tgt == args[1]
             res == target_info(records, tgt)
         IN  IF info_missing(res)
             THEN [ok |-> FALSE, info |-> None,
                   msg |-> <<"The CMake target ", tgt, " does not exist">>]
             ELSE IF ~(InfoKeys \subseteq DOMAIN res)
             THEN [ok |-> FALSE, info |-> None, msg |-> <<"AssertionError">>]
             ELSE [ok |-> TRUE, info |-> res, msg |-> <<>>]

\* dependency and target forwarding each other's field
forwarded_field_swapped(op) ==
    IF op = "dependency" THEN "tgt"
    ELSE IF op = "include_directories" THEN "inc"
    ELSE IF op = "target" THEN "dep"
    ELSE "func"

\* the record field each method forwards (lines 91, 96, 101, 106)
forwarded_field(op) ==
    IF op = "dependency" THEN "dep"
    ELSE IF op = "include_directories" THEN "inc"
    ELSE IF op = "target" THEN "tgt"
    ELSE "func"

TargetOps == {"dependency", "include_directories", "target", "target_type"}

TargetNames == {"core", "util"}

CoreRecord(t) == [inc |-> t \o "_inc", src |-> t \o "_src", dep |-> t \o "_dep",
                  tgt |-> t, func |-> IF t = "core" THEN "library" ELSE "executable"]

VarValue(v) == "<" \o v \o ">"

BridgeArgs == {<<>>, <<"core">>, <<"util">>, <<"nonexistent">>, <<"core", "util">>}

VarArgs == {<<>>, <<"core_dep">>, <<"util_inc">>, <<"nothing">>}

BridgeInit ==
    /\ subp_name \in {"sub", "zlib"}
    /\ \E ts \in {TargetNames, {"core"}} :
          /\ subp_targets = [t \in ts |-> CoreRecord(t)]
          /\ subp_vars = [v \in UNION {{CoreRecord(t).inc, CoreRecord(t).dep, CoreRecord(t).tgt} : t \in ts}
                            |-> VarValue(v)]
    /\ lookups = <<>>
    /\ bcalls = 0
    /\ blast = NoCall
    /\ RenderIdle
    /\ PkgIdle
    /\ ProbeIdle

\* get_variable (lines 84-86), also the tail of the three forwarding methods
CallGetVariable(op, orig, args) ==
    LET r == get_variable_method(subp_vars, args)
    IN  /\ lookups' = Append(lookups, args)
        /\ blast' = [op |-> op, args |-> orig, ok |-> r.ok, value |-> r.value, msg |-> r.msg]

\* info = self._args_to_info(args); return self.get_variable([info[...]], kwargs)
Forward(op, args) ==
    LET i == args_to_info(subp_targets, args)
    IN  IF i.ok
        THEN CallGetVariable(op, args, <<i.info[forwarded_field(op)]>>)
        ELSE /\ blast' = [op |-> op, args |-> args, ok |-> FALSE, value |-> "", msg |-> i.msg]
             /\ UNCHANGED lookups

\* lines 88-91
Dependency ==
    /\ bcalls < MaxBridgeCalls
    /\ \E args \in BridgeArgs : Forward("dependency", args)
    /\ bcalls' = bcalls + 1
    /\ UNCHANGED <<subp_name, subp_targets, subp_vars>>
    /\ UNCHANGED <<rvars, pvars, dvars>>

\* lines 93-96
IncludeDirectories ==
    /\ bcalls < MaxBridgeCalls
    /\ \E args \in BridgeArgs : Forward("include_directories", args)
    /\ bcalls' = bcalls + 1
    /\ UNCHANGED <<subp_name, subp_targets, subp_vars>>
    /\ UNCHANGED <<rvars, pvars, dvars>>

\* lines 98-101
Target ==
    /\ bcalls < MaxBridgeCalls
    /\ \E args \in BridgeArgs : Forward("target", args)
    /\ bcalls' = bcalls + 1
    /\ UNCHANGED <<subp_name, subp_targets, subp_vars>>
    /\ UNCHANGED <<rvars, pvars, dvars>>

\* lines 103-106
TargetType ==
    /\ bcalls < MaxBridgeCalls
    /\ \E args \in BridgeArgs :
        LET i == args_to_info(subp_targets, args)
        IN  blast' = [op |-> "target_type", args |-> args, ok |-> i.ok,
                      value |-> IF i.ok THEN i.info[forwarded_field("target_type")] ELSE "",
                      msg |-> i.msg]
    /\ bcalls' = bcalls + 1
    /\ UNCHANGED <<subp_name, subp_targets, subp_vars, lookups>>
    /\ UNCHANGED <<rvars, pvars, dvars>>

\* lines 108-111
TargetList ==
    /\ bcalls < MaxBridgeCalls
    /\ blast' = [op |-> "target_list", args |-> <<>>, ok |-> TRUE,
                 value |-> target_list(subp_targets), msg |-> <<>>]
    /\ bcalls' = bcalls + 1
    /\ UNCHANGED <<subp_name, subp_targets, subp_vars, lookups>>
    /\ UNCHANGED <<rvars, pvars, dvars>>

\* lines 84-86
GetVariable ==
    /\ bcalls < MaxBridgeCalls
    /\ \E args \in VarArgs : CallGetVariable("get_variable", args, args)
    /\ bcalls' = bcalls + 1
    /\ UNCHANGED <<subp_name, subp_targets, subp_vars>>
    /\ UNCHANGED <<rvars, pvars, dvars>>

BridgeNext ==
    \/ Dependency
    \/ IncludeDirectories
    \/ Target
    \/ TargetType
    \/ TargetList
    \/ GetVariable

SpecBridge == BridgeInit /\ [][BridgeNext]_vars

---------------------------------------------------------------------------
\* Claims about the bridge

UnknownTargetCall(c) ==
    /\ c.op \in TargetOps
    /\ Len(c.args) = 1
    /\ c.args[1] \notin DOMAIN subp_targets

KnownTargetCall(c) ==
    /\ c.op \in TargetOps
    /\ Len(c.args) = 1
    /\ c.args[1] \in DOMAIN subp_targets

\* C5 as stated: an unknown target name makes the call fail with an error
\* that names both the target and the subproject.
C5_ErrorNamesTargetAndSubproject ==
    UnknownTargetCall(blast) =>
        /\ ~blast.ok
        /\ blast.args[1] \in Range(blast.msg)
        /\ subp_name \in Range(blast.msg)

\* C5 amended: an unknown target name makes the call fail with the error
\* "The CMake target <name> does not exist", which names the target and not
\* the subproject, and no variable lookup on the subproject is performed.
C5_ErrorNamesTarget ==
    [][(bcalls' # bcalls /\ UnknownTargetCall(blast')) =>
          /\ ~blast'.ok
          /\ blast'.msg = <<"The CMake target ", blast'.args[1], " does not exist">>
          /\ subp_name \notin Range(blast'.msg)
          /\ lookups' = lookups]_vars

C5_Witness ==
    /\ blast.op = "target"
    /\ blast.args = <<"nonexistent">>
    /\ DOMAIN subp_targets = {"core", "util"}
    /\ ~blast.ok
    /\ "nonexistent" \in Range(blast.msg)
    /\ lookups = <<>>
    /\ bcalls = 1

\* C10: for a known target, dependency looks up the record's dep field,
\* include_directories its inc field and target its tgt field, each with one
\* variable lookup whose outcome is the result; target_type returns the func
\* field with no lookup; target_list returns every target name with no
\* lookup; no call changes the subproject's variables or records.
C10_ForwardOneField ==
    [][bcalls' # bcalls =>
          /\ subp_targets' = subp_targets
          /\ subp_vars' = subp_vars
          /\ subp_name' = subp_name
          /\ KnownTargetCall(blast') =>
                LET rec == subp_targets[blast'.args[1]]
                IN  /\ blast'.op = "dependency" =>
                          /\ lookups' = Append(lookups, <<rec.dep>>)
                          /\ blast'.ok /\ blast'.value = subp_vars[rec.dep]
                    /\ blast'.op = "include_directories" =>
                          /\ lookups' = Append(lookups, <<rec.inc>>)
                          /\ blast'.ok /\ blast'.value = subp_vars[rec.inc]
                    /\ blast'.op = "target" =>
                          /\ lookups' = Append(lookups, <<rec.tgt>>)
                          /\ blast'.ok /\ blast'.value = subp_vars[rec.tgt]
                    /\ blast'.op = "target_type" =>
                          /\ lookups' = lookups
                          /\ blast'.ok /\ blast'.value = rec.func
          /\ blast'.op = "target_list" =>
                /\ lookups' = lookups
                /\ blast'.value = DOMAIN subp_targets]_vars

C10_Witness ==
    /\ bcalls = 3
    /\ blast.op = "include_directories"
    /\ blast.args = <<"util">>
    /\ blast.value = "<util_inc>"
    /\ lookups = <<<<"core_dep">>, <<"util_inc">>>>

---------------------------------------------------------------------------
\* The line loop on its own

RenderInit ==
    /\ rstate = "input"
    /\ rargs \in RenderArgs
    /\ rline \in Lines
    /\ rconf \in Confs
    /\ rinit = <<>>
    /\ rout = <<>>
    /\ rmarks = <<>>
    /\ rmissing = {}
    /\ rreported = {}
    /\ PkgIdle
    /\ ProbeIdle
    /\ BridgeIdle

\* create_package_file on a template of one line: compose, then the loop body
RenderOneLine ==
    /\ rstate = "input"
    /\ LET composed == compose_package_init(rargs.infile, rargs.rel, rargs.extra)
           r == render_line(rline, composed, rconf)
       IN  /\ rinit' = composed
           /\ rout' = r.out
           /\ rmarks' = r.marks
           /\ rmissing' = r.missing
           /\ rreported' = returned_missing(r.missing)
    /\ rstate' = "done"
    /\ UNCHANGED <<rargs, rline, rconf>>
    /\ UNCHANGED <<pvars, dvars, bvars>>

RenderNext == RenderOneLine

SpecRender == RenderInit /\ [][RenderNext]_vars

---------------------------------------------------------------------------
\* Claims about the line loop

\* C2: every well-formed @name@ token whose name is absent from the mapping
\* stays verbatim in the rendered line and its name is reported to the caller
\* of the package config generation.
C2_MissingKeptAndReported ==
    rstate = "done" =>
        \A k \in 1..Len(rmarks) :
            rmarks[k].name \notin DOMAIN rconf =>
                /\ SubSeq(rout, rmarks[k].at, rmarks[k].at + rmarks[k].len - 1)
                       = <<AT>> \o rmarks[k].name \o <<AT>>
                /\ rmarks[k].name \in rreported

HasInitToken(s) == Occurs(<<AT, "PACKAGE_INIT", AT>>, s)

\* the shape "pre, run of n backslashes, @name@, rest" with no other at sign
\* and a name other than the reserved PACKAGE_INIT
FirstAt(s) == IF AT \in Range(s) THEN CHOOSE i \in 1..Len(s) : s[i] = AT /\ \A j \in 1..(i - 1) : s[j] # AT
              ELSE 0

RECURSIVE BackslashesBefore(_, _)
BackslashesBefore(s, i) ==
    IF i >= 1 /\ s[i] = BS THEN 1 + BackslashesBefore(s, i - 1) ELSE 0

EscapeShape(s) ==
    LET a == FirstAt(s)
        m == NameRun(s, a + 1)
    IN  /\ ~HasInitToken(s)
        /\ a > 0
        /\ m >= 1
        /\ a + m + 1 <= Len(s)
        /\ s[a + m + 1] = AT
        /\ AT \notin Range(SubSeq(s, a + m + 2, Len(s)))

EscapeExpected(s, confdata) ==
    LET a     == FirstAt(s)
        m     == NameRun(s, a + 1)
        n     == BackslashesBefore(s, a - 1)
        pre   == SubSeq(s, 1, a - n - 1)
        name  == SubSeq(s, a + 1, a + m)
        token == <<AT>> \o name \o <<AT>>
        rest  == SubSeq(s, a + m + 2, Len(s))
        mid   == IF n % 2 = 1 THEN token
                 ELSE IF name \in DOMAIN confdata THEN confdata[name] ELSE token
    IN  pre \o Backslashes(n \div 2) \o mid \o rest

\* C9: in a line whose only at signs are those of one @name@, a run of 2k
\* backslashes before the token renders as k backslashes and the token
\* resolved (or kept when absent); a run of 2k+1 backslashes renders as k
\* backslashes and the literal @name@.
C9_EscapeOneLevel ==
    (rstate = "done" /\ EscapeShape(rline)) => rout = EscapeExpected(rline, rconf)

C9_Witness ==
    /\ rstate = "done"
    /\ EscapeShape(rline)
    /\ BackslashesBefore(rline, FirstAt(rline) - 1) = 3
    /\ <<"a">> \in DOMAIN rconf
    /\ rout = <<BS, AT, "a", AT>>

\* C3 as stated: the block substituted for @PACKAGE_INIT@ appears in the
\* output exactly as composed.
C3_BlockUntouched ==
    (rstate = "done" /\ HasInitToken(rline)) => Occurs(rinit, rout)

\* the block as it reads after one pass of the scan over plain values
RenderedBlock(infile, rel, ext) ==
    <<PACKAGE_INIT_BASE[1], AT, "PACKAGE_INIT", AT, PACKAGE_INIT_BASE[7]>>
        \o infile \o <<PACKAGE_INIT_BASE[11]>> \o rel \o <<PACKAGE_INIT_BASE[15]>>
        \o ext \o PACKAGE_INIT_SET_AND_CHECK

InitShape(s) ==
    \E pre \in Affixes, post \in Affixes :
        Plain(pre) /\ Plain(post) /\ s = pre \o <<AT, "PACKAGE_INIT", AT>> \o post

\* C3 amended: the block goes through the same scan as the rest of the line,
\* once: its header \@PACKAGE_INIT\@ comes out as @PACKAGE_INIT@, and when
\* the file name, relative path and extra block hold no at sign and no
\* backslash everything else of the block is unchanged.
C3_BlockScannedOnce ==
    (/\ rstate = "done"
     /\ InitShape(rline)
     /\ Plain(rargs.infile) /\ Plain(rargs.rel) /\ Plain(rargs.extra))
    => \E pre \in Affixes, post \in Affixes :
          /\ rline = pre \o <<AT, "PACKAGE_INIT", AT>> \o post
          /\ rout = pre \o RenderedBlock(rargs.infile, rargs.rel, rargs.extra) \o post

C3_Witness ==
    /\ rstate = "done"
    /\ rline = <<AT, "PACKAGE_INIT", AT>>
    /\ rargs.extra # <<>>
    /\ Plain(rargs.infile)
    /\ rout # rinit
    /\ Occurs(rargs.extra, rout)

====
